---- MODULE Spec2Model ----
(***************************************************************************)
(* Vinyl Collection Manager: users, albums, cookie tokens and the HTTP     *)
(* handlers of app/main.py over the queries of app/crud.py.                *)
(*                                                                         *)
(* A string is a sequence of one-character strings.  A form, a dict of    *)
(* keyword arguments and an album row are functions from field names; a   *)
(* field that is None / NULL is absent from the domain.                    *)
(***************************************************************************)
EXTENDS Integers, Sequences, FiniteSets, TLC

VARIABLES users, albums, tokens, pending, now, resp

vars == <<users, albums, tokens, pending, now, resp>>

(***************************************************************************)
(* Bounds of the model.                                                    *)
(***************************************************************************)
MaxClock == 2

MaxAlbums == 2

MaxPending == 2

MaxListed == 3

MaxEdged == 1

MaxSearched == 2

MaxStored == 1

MaxTokens == 3

(***************************************************************************)
(* Strings.                                                                *)
(***************************************************************************)
Rep(c, n) == [i \in 1..n |-> c]

len(s) == Len(s)

lower_char(c) ==
  CASE c = "A" -> "a"
    [] c = "B" -> "b"
    [] OTHER -> c

lower(s) == [i \in 1..Len(s) |-> lower_char(s[i])]

isspace(c) == c = " "

RECURSIVE lstrip(_)
lstrip(s) ==
  IF s # <<>> /\ isspace(Head(s)) THEN lstrip(Tail(s)) ELSE s

RECURSIVE rstrip(_)
rstrip(s) ==
  IF s # <<>> /\ isspace(s[Len(s)]) THEN rstrip(SubSeq(s, 1, Len(s) - 1)) ELSE s

strip(s) == rstrip(lstrip(s))

\* c in s
char_in(c, s) == \E i \in 1..Len(s) : s[i] = c

\* s.split(sep)[-1]: what follows the last sep, all of s when there is none
RECURSIVE split_last(_, _)
split_last(s, sep) ==
  IF char_in(sep, s)
    THEN LET i == CHOOSE k \in 1..Len(s) : s[k] = sep /\ \A j \in 1..(k - 1) : s[j] # sep
         IN  split_last(SubSeq(s, i + 1, Len(s)), sep)
    ELSE s

\* "; ".join(errors) is not modelled: the list of errors is the message
truthy(s) == s # <<>>

(***************************************************************************)
(* Validation (main.py).                                                   *)
(***************************************************************************)
\* a validation that returns at the first error
validate_user_registration_first(email, username, password, confirm_password) ==
  IF ~truthy(email) \/ ~char_in("@", email) \/ ~char_in(".", split_last(email, "@"))
    THEN <<"email">>
  ELSE IF ~truthy(username) \/ len(username) < 3 THEN <<"username_short">>
  ELSE IF len(username) > 50 THEN <<"username_long">>
  ELSE IF ~truthy(password) \/ len(password) < 6 THEN <<"password_short">>
  ELSE IF len(password) > 72 THEN <<"password_long">>
  ELSE IF password # confirm_password THEN <<"password_mismatch">>
  ELSE <<>>

validate_user_registration(email, username, password, confirm_password) ==
  (IF ~truthy(email) \/ ~char_in("@", email) \/ ~char_in(".", split_last(email, "@"))
     THEN <<"email">> ELSE <<>>)
  \o (IF ~truthy(username) \/ len(username) < 3 THEN <<"username_short">>
      ELSE IF len(username) > 50 THEN <<"username_long">> ELSE <<>>)
  \o (IF ~truthy(password) \/ len(password) < 6 THEN <<"password_short">>
      ELSE IF len(password) > 72 THEN <<"password_long">> ELSE <<>>)
  \o (IF password # confirm_password THEN <<"password_mismatch">> ELSE <<>>)

(***************************************************************************)
(* Token and password helpers (app/auth.py).                               *)
(***************************************************************************)
None == [none |-> TRUE]

ACCESS_TOKEN_EXPIRE_MINUTES == 2

get_password_hash(password) == <<"$hash$">> \o password

verify_password(password, hashed_password) ==
  hashed_password = get_password_hash(password)

\* a signed token carrying the data and the time it expires at
create_access_token(data, expires_delta) ==
  [kind |-> "jwt", sub |-> data.sub, exp |-> now + expires_delta]

\* the payload of a token that verifies and has not expired, else None
decode_token(token) ==
  IF token.kind = "jwt" /\ now < token.exp THEN [sub |-> token.sub] ELSE None

\* cookie values that are not tokens this server issued
NoToken == [kind |-> "none"]

BadToken == [kind |-> "garbage"]

(***************************************************************************)
(* The database: tables users and albums (models.py) and the queries on    *)
(* users (crud.py).                                                        *)
(***************************************************************************)
SetMax(S) == IF S = {} THEN 0 ELSE CHOOSE m \in S : \A x \in S : x <= m

\* Integer primary key: one more than the largest id in the table
next_id(table) == SetMax({r.id : r \in table}) + 1

\* Query.first(): a row of the result, None when it is empty
first(rows) == IF rows = {} THEN None ELSE CHOOSE r \in rows : TRUE

get_user_by_email(email) == first({u \in users : u.email = email})

get_user_by_username(username) == first({u \in users : u.username = username})

User(email, username, hashed_password) ==
  [id |-> next_id(users), email |-> email, username |-> username,
   hashed_password |-> hashed_password, is_active |-> TRUE, created_at |-> now]

\* columns declared without unique=True
UniqueViolation_none(email, username) == FALSE

\* unique=True on users.email and users.username: the INSERT fails at commit
UniqueViolation(email, username) ==
  \E u \in users : u.email = email \/ u.username = username

(***************************************************************************)
(* Responses.  op, token and form repeat the request the response answers  *)
(* (token: its access_token cookie), uid is the id of the user the handler *)
(* ran as (0: none), id the album id of the path (0: none), body what the  *)
(* template is given, set_cookie the token the response sets.              *)
(***************************************************************************)
Response(op, status, view, token, uid, id, form, body) ==
  [op |-> op, status |-> status, view |-> view, token |-> token, uid |-> uid, id |-> id,
   form |-> form, body |-> body, set_cookie |-> NoToken]

\* response.set_cookie(key="access_token", value=access_token)
set_cookie(response, access_token) == [response EXCEPT !.set_cookie = access_token]

NoForm == <<>>

\* a request that is in its handler and has no answer yet
InProgress(op, form) == Response(op, 0, "", NoToken, 0, 0, form, <<>>)

(***************************************************************************)
(* Authentication (main.py).                                               *)
(***************************************************************************)
\* a lookup that takes any cookie for a token and does not read its expiry
get_current_user_unverified(token) ==
  IF token = NoToken THEN None
  ELSE IF token.kind # "jwt" THEN first(users)
  ELSE first({u \in users : u.username = token.sub})

get_current_user_from_cookie(token) ==
  IF token = NoToken THEN None
  ELSE LET payload == decode_token(token) IN
       IF payload = None THEN None
       ELSE IF ~truthy(payload.sub) THEN None
       ELSE first({u \in users : u.username = payload.sub})

authenticate_user(username, password) ==
  LET user == get_user_by_username(username) IN
  IF user = None THEN None
  ELSE IF ~verify_password(password, user.hashed_password) THEN None
  ELSE user

\* POST /login
login_user(username, password) ==
  LET user == authenticate_user(username, password)
      form == [username |-> username, password |-> password]
      access_token == create_access_token([sub |-> user.username],
                                          ACCESS_TOKEN_EXPIRE_MINUTES) IN
  /\ IF user = None
       THEN /\ resp' = Response("login", 401, "login.html", NoToken, 0, 0, form, <<"bad_credentials">>)
            /\ UNCHANGED tokens
       ELSE /\ tokens' = tokens \cup {access_token}
            /\ resp' = set_cookie(Response("login", 303, "/albums", NoToken, user.id, 0,
                                            form, <<>>), access_token)
  /\ UNCHANGED <<users, albums, pending, now>>

\* GET /logout: the cookie is deleted at the client; the server keeps no session
logout ==
  /\ resp' = Response("logout", 303, "/", NoToken, 0, 0, NoForm, <<>>)
  /\ UNCHANGED <<users, albums, tokens, pending, now>>

(***************************************************************************)
(* POST /register.  The handler reads the users table (line 280) and       *)
(* writes it (line 296) in two statements; a request that has passed the   *)
(* existence check and not yet committed is in pending.                    *)
(***************************************************************************)
\* the worker that takes the request: the first one not in a request
free_rid ==
  CHOOSE k \in 1..(Cardinality(pending) + 1) :
    /\ \A r \in pending : r.rid # k
    /\ \A j \in 1..(k - 1) : \E r \in pending : r.rid = j

register_user_check(email, username, password, confirm_password) ==
  LET form == [email |-> email, username |-> username, password |-> password,
               confirm_password |-> confirm_password]
      validation_errors == validate_user_registration(email, username, password,
                                                      confirm_password) IN
  /\ IF validation_errors # <<>>
       THEN /\ resp' = Response("register", 422, "register.html", NoToken, 0, 0, form,
                                validation_errors)
            /\ UNCHANGED pending
       ELSE IF get_user_by_email(email) # None \/ get_user_by_username(username) # None
       THEN /\ resp' = Response("register", 400, "register.html", NoToken, 0, 0, form,
                                <<"exists">>)
            /\ UNCHANGED pending
       ELSE /\ pending' = pending \cup
                 {[rid |-> free_rid, form |-> form]}
            /\ resp' = InProgress("register", form)
  /\ UNCHANGED <<users, albums, tokens, now>>

register_user_commit(r) ==
  LET f == r.form
      user == User(f.email, f.username, get_password_hash(f.password))
      access_token == create_access_token([sub |-> user.username],
                                          ACCESS_TOKEN_EXPIRE_MINUTES) IN
  /\ r \in pending
  /\ pending' = pending \ {r}
  /\ IF UniqueViolation(f.email, f.username)
       THEN \* IntegrityError at db.commit(): rollback, generic 500
            /\ resp' = Response("register", 500, "register.html", NoToken, 0, 0, f,
                                <<"error">>)
            /\ UNCHANGED <<users, tokens>>
       ELSE /\ users' = users \cup {user}
            /\ tokens' = tokens \cup {access_token}
            /\ resp' = set_cookie(Response("register", 303, "/albums", NoToken, user.id, 0,
                                            f, <<>>), access_token)
  /\ UNCHANGED <<albums, now>>

\* the clock the timestamps and the token expiry read
Tick ==
  /\ now < MaxClock
  /\ now' = now + 1
  /\ UNCHANGED <<users, albums, tokens, pending, resp>>

(***************************************************************************)
(* Albums: validation and the handler's normalisation (main.py).  An empty *)
(* form field never reaches a handler (Form() takes it as missing), so a   *)
(* handler's string argument is absent or non-empty; title and artist are  *)
(* required and always present.                                            *)
(***************************************************************************)
current_year == 2026

\* Optional[int] as a sequence: <<>> is None, <<y>> is y
opt(form, k) == IF k \in DOMAIN form THEN <<form[k]>> ELSE <<>>

\* a validation whose year bounds are exclusive
validate_album_data_exclusive(title, artist, release_year) ==
  (IF ~truthy(title) \/ len(strip(title)) = 0 THEN <<"title_required">>
   ELSE IF len(title) > 200 THEN <<"title_long">> ELSE <<>>)
  \o (IF ~truthy(artist) \/ len(strip(artist)) = 0 THEN <<"artist_required">>
      ELSE IF len(artist) > 100 THEN <<"artist_long">> ELSE <<>>)
  \o (IF release_year # <<>>
        THEN IF release_year[1] <= 1900 \/ release_year[1] >= current_year
               THEN <<"year_range">> ELSE <<>>
        ELSE <<>>)

validate_album_data(title, artist, release_year) ==
  (IF ~truthy(title) \/ len(strip(title)) = 0 THEN <<"title_required">>
   ELSE IF len(title) > 200 THEN <<"title_long">> ELSE <<>>)
  \o (IF ~truthy(artist) \/ len(strip(artist)) = 0 THEN <<"artist_required">>
      ELSE IF len(artist) > 100 THEN <<"artist_long">> ELSE <<>>)
  \o (IF release_year # <<>>
        THEN IF release_year[1] < 1900 \/ release_year[1] > current_year
               THEN <<"year_range">> ELSE <<>>
        ELSE <<>>)

StrippedFields == {"genre", "record_label", "country", "barcode", "notes"}

\* the dict the create and edit handlers build, its None values dropped
album_data_of(form) ==
  LET value(k) ==
        IF k \in {"title", "artist"} THEN <<strip(form[k])>>
        ELSE IF k \in StrippedFields
          THEN IF k \in DOMAIN form /\ truthy(form[k]) THEN <<strip(form[k])>> ELSE <<>>
        ELSE opt(form, k)
      keys == {k \in {"title", "artist", "genre", "release_year", "record_label",
                      "country", "condition", "barcode", "notes"} : value(k) # <<>>}
  IN  [k \in keys |-> value(k)[1]]

(***************************************************************************)
(* Queries on albums (crud.py).                                            *)
(***************************************************************************)
Raise404 == [raise |-> 404]

Returns(v) == [raise |-> 0, value |-> v]

\* an ORDER BY created_at without .desc()
RECURSIVE order_by_created_at_asc(_)
order_by_created_at_asc(rows) ==
  IF rows = {} THEN {<<>>}
  ELSE UNION {{<<x>> \o s : s \in order_by_created_at_asc(rows \ {x})} :
                x \in {y \in rows : \A z \in rows : y.created_at <= z.created_at}}

\* every order of the rows the ORDER BY allows: created_at descending, rows
\* of equal created_at in any order
RECURSIVE order_by_created_at_desc(_)
order_by_created_at_desc(rows) ==
  IF rows = {} THEN {<<>>}
  ELSE UNION {{<<x>> \o s : s \in order_by_created_at_desc(rows \ {x})} :
                x \in {y \in rows : \A z \in rows : y.created_at >= z.created_at}}

\* OFFSET skip LIMIT limit
offset_limit(s, skip, limit) ==
  SubSeq(s, skip + 1, IF skip + limit < Len(s) THEN skip + limit ELSE Len(s))

\* the results the query may return
get_albums(user_id, skip, limit) ==
  {offset_limit(s, skip, limit) :
     s \in order_by_created_at_desc({a \in albums : a.owner_id = user_id})}

get_album_by_id(album_id, user_id) ==
  LET album == first({a \in albums : a.id = album_id /\ a.owner_id = user_id}) IN
  IF album = None THEN Raise404 ELSE album

Album(owner_id, album_data) ==
  [k \in {"id", "owner_id", "created_at"} \cup DOMAIN album_data |->
     CASE k = "id" -> next_id(albums)
       [] k = "owner_id" -> owner_id
       [] k = "created_at" -> now
       [] OTHER -> album_data[k]]

\* an update that assigns every column of the form, None included
setattrs_all(album, album_data) ==
  [k \in {"id", "owner_id", "created_at"} \cup DOMAIN album_data |->
     IF k \in DOMAIN album_data THEN album_data[k] ELSE album[k]]

\* setattr for each value that is not None
setattrs(album, album_data) ==
  [k \in DOMAIN album \cup DOMAIN album_data |->
     IF k \in DOMAIN album_data THEN album_data[k] ELSE album[k]]

RECURSIVE like(_, _)
like(s, p) ==
  IF p = <<>> THEN s = <<>>
  ELSE IF Head(p) = "%" THEN like(s, Tail(p)) \/ (s # <<>> /\ like(Tail(s), p))
  ELSE IF s = <<>> THEN FALSE
  ELSE (Head(p) = "_" \/ Head(p) = Head(s)) /\ like(Tail(s), Tail(p))

\* column.ilike(pattern); NULL is like nothing
ilike(album, column, pattern) ==
  column \in DOMAIN album /\ like(lower(album[column]), lower(pattern))

\* a search that leaves out the filter on the owner
search_albums_any_owner(user_id, query) ==
  LET pattern == <<"%">> \o query \o <<"%">> IN
  {a \in albums :
     \/ ilike(a, "title", pattern)
     \/ ilike(a, "artist", pattern)
     \/ ilike(a, "genre", pattern)}

search_albums(user_id, query) ==
  LET pattern == <<"%">> \o query \o <<"%">> IN
  {a \in albums :
     /\ a.owner_id = user_id
     /\ \/ ilike(a, "title", pattern)
        \/ ilike(a, "artist", pattern)
        \/ ilike(a, "genre", pattern)}

(***************************************************************************)
(* Album routes (main.py).  token is the request's access_token cookie.    *)
(***************************************************************************)
DefaultSkip == 0

DefaultLimit == 100

RedirectToLogin(op, token, id, form) ==
  Response(op, 303, "/login", token, 0, id, form, <<>>)

\* GET /albums?q=
albums_page(token, q) ==
  LET user == get_current_user_from_cookie(token)
      form == [q |-> q] IN
  /\ IF user = None
       THEN resp' = RedirectToLogin("albums", token, 0, form)
       ELSE IF truthy(q)
         THEN resp' = Response("search", 200, "albums.html", token, user.id, 0, form,
                               search_albums(user.id, q))
         ELSE \E result \in get_albums(user.id, DefaultSkip, DefaultLimit) :
                resp' = Response("list", 200, "albums.html", token, user.id, 0, form, result)
  /\ UNCHANGED <<users, albums, tokens, pending, now>>

\* GET /albums/new
new_album_page(token) ==
  LET user == get_current_user_from_cookie(token) IN
  /\ IF user = None
       THEN resp' = RedirectToLogin("new", token, 0, NoForm)
       ELSE resp' = Response("new", 200, "album_detail.html", token, user.id, 0, NoForm, <<>>)
  /\ UNCHANGED <<users, albums, tokens, pending, now>>

\* a create_album that does not pass owner_id on
create_album_no_owner(user_id, album_data) ==
  [k \in DOMAIN Album(user_id, album_data) \ {"owner_id"} |->
     Album(user_id, album_data)[k]]

create_album(user_id, album_data) == Album(user_id, album_data)

\* POST /albums/new
create_new_album(token, form) ==
  LET user == get_current_user_from_cookie(token)
      validation_errors == validate_album_data(form.title, form.artist,
                                               opt(form, "release_year"))
      album == create_album(user.id, album_data_of(form)) IN
  /\ IF user = None
       THEN /\ resp' = RedirectToLogin("create", token, 0, form)
            /\ UNCHANGED albums
       ELSE IF validation_errors # <<>>
       THEN /\ resp' = Response("create", 422, "album_detail.html", token, user.id, 0, form,
                                validation_errors)
            /\ UNCHANGED albums
       ELSE /\ albums' = albums \cup {album}
            /\ resp' = Response("create", 303, "/albums/{id}", token, user.id, album.id, form, <<>>)
  /\ UNCHANGED <<users, tokens, pending, now>>

\* GET /albums/{album_id}
album_detail_page(token, album_id) ==
  LET user == get_current_user_from_cookie(token)
      album == get_album_by_id(album_id, user.id) IN
  /\ IF user = None
       THEN resp' = RedirectToLogin("fetch", token, album_id, NoForm)
       ELSE IF album = Raise404
       THEN resp' = Response("fetch", 404, "error.html", token, user.id, album_id, NoForm, <<>>)
       ELSE resp' = Response("fetch", 200, "album_detail.html", token, user.id, album_id, NoForm,
                             <<album>>)
  /\ UNCHANGED <<users, albums, tokens, pending, now>>

\* crud.update_album: the table after the update, Raise404 when the user has no
\* such album
update_album(album_id, user_id, album_data) ==
  LET album == get_album_by_id(album_id, user_id) IN
  IF album = Raise404 THEN Raise404
  ELSE Returns((albums \ {album}) \cup {setattrs(album, album_data)})

\* POST /albums/{album_id}/edit
edit_album(token, album_id, form) ==
  LET user == get_current_user_from_cookie(token)
      validation_errors == validate_album_data(form.title, form.artist,
                                               opt(form, "release_year"))
      updated == update_album(album_id, user.id, album_data_of(form)) IN
  /\ IF user = None
       THEN /\ resp' = RedirectToLogin("edit", token, album_id, form)
            /\ UNCHANGED albums
       ELSE IF validation_errors # <<>>
       THEN /\ resp' = Response("edit", 422, "album_detail.html", token, user.id, album_id, form,
                                validation_errors)
            /\ UNCHANGED albums
       ELSE IF updated = Raise404
       THEN /\ resp' = Response("edit", 404, "error.html", token, user.id, album_id, form, <<>>)
            /\ UNCHANGED albums
       ELSE /\ albums' = updated.value
            /\ resp' = Response("edit", 303, "/albums/{id}", token, user.id, album_id, form, <<>>)
  /\ UNCHANGED <<users, tokens, pending, now>>

\* crud.delete_album: the table after the delete, Raise404 when the user has no
\* such album
delete_album(album_id, user_id) ==
  LET album == get_album_by_id(album_id, user_id) IN
  IF album = Raise404 THEN Raise404 ELSE Returns(albums \ {album})

\* POST /albums/{album_id}/delete: the 404 of crud.delete_album is caught and
\* logged (the body records the logger.error call), and the answer is the
\* redirect of a delete that succeeded
delete_album_endpoint(token, album_id) ==
  LET user == get_current_user_from_cookie(token)
      deleted == delete_album(album_id, user.id) IN
  /\ IF user = None
       THEN /\ resp' = RedirectToLogin("delete", token, album_id, NoForm)
            /\ UNCHANGED albums
       ELSE IF deleted = Raise404
       THEN /\ resp' = Response("delete", 303, "/albums", token, user.id, album_id, NoForm,
                                <<"logger.error">>)
            /\ UNCHANGED albums
       ELSE /\ albums' = deleted.value
            /\ resp' = Response("delete", 303, "/albums", token, user.id, album_id, NoForm, <<>>)
  /\ UNCHANGED <<users, tokens, pending, now>>

(***************************************************************************)
(* Initial states.                                                         *)
(***************************************************************************)
NoResponse == Response("none", 0, "", NoToken, 0, 0, NoForm, <<>>)

\* the state after construction: empty tables
Init ==
  /\ users = {}
  /\ albums = {}
  /\ tokens = {}
  /\ pending = {}
  /\ now = 0
  /\ resp = NoResponse

EmailA == <<"a", "@", "b", ".", "c">>

EmailB == <<"B", "@", "b", ".", "c">>

NameA == Rep("a", 3)

NameB == Rep("B", 3)

PassA == Rep("p", 6)

PassB == Rep("q", 6)

UserA ==
  [id |-> 1, email |-> EmailA, username |-> NameA,
   hashed_password |-> get_password_hash(PassA), is_active |-> TRUE, created_at |-> 0]

UserB ==
  [id |-> 2, email |-> EmailB, username |-> NameB,
   hashed_password |-> get_password_hash(PassB), is_active |-> TRUE, created_at |-> 0]

\* the state after the registrations of two users at time 0
InitRegistered ==
  /\ users = {UserA, UserB}
  /\ albums = {}
  /\ tokens = {[kind |-> "jwt", sub |-> NameA, exp |-> ACCESS_TOKEN_EXPIRE_MINUTES],
               [kind |-> "jwt", sub |-> NameB, exp |-> ACCESS_TOKEN_EXPIRE_MINUTES]}
  /\ pending = {}
  /\ now = 0
  /\ resp = NoResponse

\* the cookies a request may carry
Cookies == tokens \cup {NoToken, BadToken}

AlbumIds == 1..MaxAlbums

(***************************************************************************)
(* Album requests of two registered users.                                 *)
(***************************************************************************)
FormFull ==
  [title |-> <<" ", "a">>, artist |-> <<"B">>, genre |-> <<"a", " ">>,
   release_year |-> 1900, condition |-> <<" ", "a">>]

FormSubset == [title |-> <<"B", " ">>, artist |-> <<"a">>]

FormBlank == [title |-> <<" ">>, artist |-> <<"B">>]

AlbumForms == {FormFull, FormSubset, FormBlank}

NextAlbums ==
  \/ \E token \in tokens : albums_page(token, <<>>)
  \/ \E token \in tokens \cup {NoToken}, form \in AlbumForms :
       Cardinality(albums) < MaxAlbums /\ create_new_album(token, form)
  \/ \E token \in tokens \cup {NoToken}, album_id \in AlbumIds : album_detail_page(token, album_id)
  \/ \E token \in tokens \cup {NoToken}, album_id \in AlbumIds, form \in AlbumForms :
       edit_album(token, album_id, form)
  \/ \E token \in tokens \cup {NoToken}, album_id \in AlbumIds : delete_album_endpoint(token, album_id)

SpecAlbums == InitRegistered /\ [][NextAlbums]_vars

(***************************************************************************)
(* Claims on the album requests of two registered users (SpecAlbums).      *)
(***************************************************************************)
\* the stored user a token names
UserOf(token) == {u \in users : token.kind = "jwt" /\ u.username = token.sub}

AlbumColumns ==
  {"title", "artist", "genre", "release_year", "record_label", "country", "condition",
   "barcode", "notes"}

\* the same value or NULL in both rows
SameColumn(x, y, k) ==
  /\ (k \in DOMAIN x) = (k \in DOMAIN y)
  /\ k \in DOMAIN x => x[k] = y[k]

\* C1: a fetch, a valid edit or a delete of album x by a user who does not own
\* it is answered not-found (404), and x is stored unchanged afterwards.
C1_CrossUserNotFound ==
  [][\A x \in albums :
       (/\ resp'.op \in {"fetch", "edit", "delete"}
        /\ resp'.id = x.id
        /\ resp'.uid # 0
        /\ resp'.uid # x.owner_id
        /\ resp'.status # 422)
       => (resp'.status = 404 /\ x \in albums')]_vars

\* C2: an album created by POST /albums/new is owned by the user the request's
\* token names; every stored album has exactly one owner, a stored user; no
\* request changes the owner of an album, and only a create adds an album.
C2_OwnerIsRequester ==
  [][/\ \A a \in albums' :
          /\ "owner_id" \in DOMAIN a
          /\ Cardinality({u \in users' : u.id = a.owner_id}) = 1
     /\ (resp'.op = "create" /\ resp'.view = "/albums/{id}") =>
          \E a \in albums' \ albums, u \in UserOf(resp'.token) :
            a.id = resp'.id /\ a.owner_id = u.id
     /\ \A a \in albums, b \in albums' : a.id = b.id => a.owner_id = b.owner_id
     /\ \A b \in albums' :
          (\A a \in albums : a.id # b.id) => (resp'.op = "create" /\ resp'.id = b.id)]_vars

\* an album of the second user was created and then edited beside one of the first
C2_Witness ==
  /\ resp.op = "edit"
  /\ resp.view = "/albums/{id}"
  /\ resp.uid = UserB.id
  /\ \E a, b \in albums : a.owner_id = UserA.id /\ b.owner_id = UserB.id /\ b.id = resp.id

\* C7 as claimed: an accepted edit stores the submitted value of every field
\* the form carries, and leaves the other fields, the id, the owner, the
\* creation time and every other album as they were.
C7_EditStoresSubmitted ==
  [][(resp'.op = "edit" /\ resp'.view = "/albums/{id}") =>
       \E x \in albums, y \in albums' :
         /\ x.id = resp'.id /\ y.id = resp'.id
         /\ y.owner_id = x.owner_id /\ y.created_at = x.created_at
         /\ \A k \in AlbumColumns :
              IF k \in DOMAIN resp'.form
                THEN k \in DOMAIN y /\ y[k] = resp'.form[k]
                ELSE SameColumn(x, y, k)
         /\ albums' \ {y} = albums \ {x}]_vars

\* what the handler stores of a submitted value: text without the spaces
\* around it, the condition and the year as they are
Stored(k, v) == IF k \in {"condition", "release_year"} THEN v ELSE strip(v)

\* C7, amended: an accepted edit stores, for every field the form carries, the
\* submitted value stripped of surrounding whitespace (condition and release
\* year as submitted), and leaves the other fields, the id, the owner, the
\* creation time and every other album as they were.
C7_EditStoresStripped ==
  [][(resp'.op = "edit" /\ resp'.view = "/albums/{id}") =>
       \E x \in albums, y \in albums' :
         /\ x.id = resp'.id /\ y.id = resp'.id
         /\ y.owner_id = x.owner_id /\ y.created_at = x.created_at
         /\ \A k \in AlbumColumns :
              IF k \in DOMAIN resp'.form
                THEN k \in DOMAIN y /\ y[k] = Stored(k, resp'.form[k])
                ELSE SameColumn(x, y, k)
         /\ albums' \ {y} = albums \ {x}]_vars

\* an edit that carries title and artist alone has changed an album that has a
\* genre, a year and a condition, with another album stored beside it
C7_Witness ==
  /\ resp.op = "edit"
  /\ resp.view = "/albums/{id}"
  /\ resp.form = FormSubset
  /\ Cardinality(albums) = 2
  /\ \E y \in albums :
       /\ y.id = resp.id
       /\ y.title = <<"B">>
       /\ {"genre", "release_year", "condition"} \subseteq DOMAIN y

(***************************************************************************)
(* Listing: albums created and deleted as the clock advances (SpecList).   *)
(***************************************************************************)
NextList ==
  \/ \E token \in Cookies : albums_page(token, <<>>)
  \/ \E token \in tokens :
       Cardinality(albums) < MaxListed /\ create_new_album(token, FormSubset)
  \/ \E token \in tokens, album_id \in 1..MaxListed : delete_album_endpoint(token, album_id)
  \/ Tick

SpecList == InitRegistered /\ [][NextList]_vars

Min(a, b) == IF a < b THEN a ELSE b

Max(a, b) == IF a < b THEN b ELSE a

OwnedBy(user_id) == {a \in albums : a.owner_id = user_id}

\* row x of user_id may stand at place p (from 1) of a newest-first ordering
\* of the user's albums: fewer than p albums are newer, at least p as new
MayStandAt(x, user_id, p) ==
  /\ Cardinality({a \in OwnedBy(user_id) : a.created_at > x.created_at}) < p
  /\ Cardinality({a \in OwnedBy(user_id) : a.created_at >= x.created_at}) >= p

\* r is the slice [skip, skip + limit) of a newest-first ordering of the
\* albums of user_id
IsPage(r, user_id, skip, limit) ==
  /\ \A i \in DOMAIN r : r[i] \in OwnedBy(user_id)
  /\ \A i, j \in DOMAIN r : i # j => r[i] # r[j]
  /\ \A i, j \in DOMAIN r : i < j => r[i].created_at >= r[j].created_at
  /\ Len(r) = Min(limit, Max(Cardinality(OwnedBy(user_id)) - skip, 0))
  /\ \A i \in DOMAIN r : MayStandAt(r[i], user_id, skip + i)

\* C6: for every user, offset and limit, every result of the listing query
\* holds only the user's albums, no album with a later creation timestamp
\* after one with an earlier, and is the slice [skip, skip + limit) of that
\* ordering (so at most limit albums); the page GET /albums shows is the
\* result for offset 0 and limit 100.
C6_ListingNewestFirst ==
  /\ \A u \in users, skip \in 0..(MaxListed + 1), limit \in 0..(MaxListed + 1) :
       \A r \in get_albums(u.id, skip, limit) :
         IsPage(r, u.id, skip, limit) /\ Len(r) <= limit
  /\ resp.op = "list" => IsPage(resp.body, resp.uid, DefaultSkip, DefaultLimit)

\* a user's listing of two albums of different timestamps, while another user
\* has an album too
C6_Witness ==
  /\ resp.op = "list"
  /\ Len(resp.body) = 2
  /\ resp.body[1].created_at > resp.body[2].created_at
  /\ \E a \in albums : a.owner_id # resp.uid

(***************************************************************************)
(* Registration requests served by several workers at once (SpecRegister). *)
(***************************************************************************)
RegisterForms ==
  {[email |-> e, username |-> u, password |-> PassA, confirm_password |-> c] :
     e \in {EmailA, EmailB}, u \in {NameA, NameB}, c \in {PassA, PassB}}

NextRegister ==
  \/ \E f \in RegisterForms :
       /\ Cardinality(pending) < MaxPending
       /\ register_user_check(f.email, f.username, f.password, f.confirm_password)
  \/ \E r \in pending : register_user_commit(r)

SpecRegister == Init /\ [][NextRegister]_vars

\* the form names an email or a username of a stored user
Taken(form) == \E u \in users : u.email = form.email \/ u.username = form.username

\* C3: a registration whose email or username belongs to a stored user is
\* rejected and stores no user, and after every step, of any interleaving of
\* registrations, no two stored users share an email or a username.
C3_UniqueUsers ==
  [][/\ \A u, v \in users' : u # v => (u.email # v.email /\ u.username # v.username)
     /\ (resp'.op = "register" /\ Taken(resp'.form)) =>
          (users' = users /\ resp'.status \in {400, 422, 500})]_vars

\* of two registrations in flight with one email and two usernames, the
\* second to commit was rejected
C3_Witness ==
  /\ resp.op = "register"
  /\ resp.status = 500
  /\ \E u \in users : u.email = resp.form.email /\ u.username # resp.form.username

\* C4: a registration that fails because its email or username is taken
\* fails at the existence check, with the 400 response, in every interleaving.
C4_DuplicateFailsAtCheck ==
  (resp.op = "register" /\ resp.status \notin {0, 303, 422}) => resp.status = 400

(***************************************************************************)
(* Registration forms at the edges of the validation rules, one request at *)
(* a time (SpecValidateUser).                                              *)
(***************************************************************************)
EdgeEmails ==
  {EmailA, EmailB,
   <<"a", "@", "b">>,
   <<"a", ".", "b">>,
   <<"a", ".", "b", "@", "c">>,
   <<"a", "@", "b", ".", "c", "@", "d">>}

EdgeUsernames == {Rep("a", 2), Rep("a", 3), Rep("a", 50), Rep("a", 51)}

EdgePasswords == {Rep("p", 5), Rep("p", 6), Rep("p", 72), Rep("p", 73)}

NextValidateUser ==
  \/ \E e \in EdgeEmails, u \in EdgeUsernames, p \in EdgePasswords :
       \E c \in {p, PassB} :
         /\ pending = {}
         /\ register_user_check(e, u, p, c)
  \/ \E r \in pending : register_user_commit(r)

SpecValidateUser == Init /\ [][NextValidateUser]_vars

\* the rules as the claim words them
EmailHasAtThenDot(email) ==
  \E i, j \in 1..Len(email) : i < j /\ email[i] = "@" /\ email[j] = "."

EmailHasDotAfterLastAt(email) ==
  \E i, j \in 1..Len(email) :
    /\ i < j /\ email[i] = "@" /\ email[j] = "."
    /\ \A k \in (i + 1)..Len(email) : email[k] # "@"

UsernameRule(username) == Len(username) >= 3 /\ Len(username) <= 50

PasswordRule(password) == Len(password) >= 6 /\ Len(password) <= 72

Count(errors, tags) == Cardinality({i \in DOMAIN errors : errors[i] \in tags})

\* the error list of the validation a registration response went through:
\* the body of a 422, empty for any other answer
ErrorsOf(r) == IF r.status = 422 THEN r.body ELSE <<>>

\* errors holds one error for each rule the form breaks and nothing else
OneErrorPerRule(errors, form, email_rule) ==
  /\ Count(errors, {"email"}) = (IF email_rule THEN 0 ELSE 1)
  /\ Count(errors, {"username_short", "username_long"}) =
       (IF UsernameRule(form.username) THEN 0 ELSE 1)
  /\ Count(errors, {"password_short", "password_long"}) =
       (IF PasswordRule(form.password) THEN 0 ELSE 1)
  /\ Count(errors, {"password_mismatch"}) =
       (IF form.password = form.confirm_password THEN 0 ELSE 1)
  /\ Len(errors) = Count(errors, {"email", "username_short", "username_long",
                                  "password_short", "password_long", "password_mismatch"})
  /\ (errors = <<>>) =
       (/\ email_rule
        /\ UsernameRule(form.username)
        /\ PasswordRule(form.password)
        /\ form.password = form.confirm_password)

\* C8 as claimed: the validation reports exactly one error for each broken
\* rule among "the email has an @ with a . after it", username length in
\* [3,50], password length in [6,72] and password = confirmation, all of them
\* together, and no error exactly when the four rules hold.
C8_OneErrorPerRule ==
  resp.op = "register" =>
    OneErrorPerRule(ErrorsOf(resp), resp.form, EmailHasAtThenDot(resp.form.email))

\* C8, amended: the same with the email rule "the email has an @ and a .
\* after its last @".
C8_OneErrorPerRuleLastAt ==
  resp.op = "register" =>
    OneErrorPerRule(ErrorsOf(resp), resp.form, EmailHasDotAfterLastAt(resp.form.email))

\* a form that breaks the four rules at once was answered with four errors
C8_Witness ==
  /\ resp.op = "register"
  /\ resp.status = 422
  /\ Len(resp.body) = 4
  /\ Len(resp.form.username) = 51
  /\ Len(resp.form.password) = 73

(***************************************************************************)
(* Album forms at the edges of the validation rules (SpecValidateAlbum).   *)
(***************************************************************************)
EdgeTitles == {<<" ">>, Rep("a", 200), Rep("a", 201), <<" ">> \o Rep("a", 200)}

EdgeArtists == {<<" ", " ">>, Rep("B", 100), Rep("B", 101)}

EdgeYears == {1899, 1900, current_year, current_year + 1}

EdgeForms ==
  {[title |-> t, artist |-> a] : t \in EdgeTitles, a \in EdgeArtists}
  \cup {[title |-> t, artist |-> a, release_year |-> y] :
          t \in EdgeTitles, a \in EdgeArtists, y \in EdgeYears}

NextValidateAlbum ==
  \/ \E token \in tokens, form \in EdgeForms :
       Cardinality(albums) < MaxEdged /\ create_new_album(token, form)
  \/ \E token \in tokens, album_id \in 1..MaxEdged, form \in EdgeForms :
       edit_album(token, album_id, form)

SpecValidateAlbum == InitRegistered /\ [][NextValidateAlbum]_vars

NonBlank(s) == \E i \in 1..Len(s) : s[i] # " "

AlbumFormValid(form) ==
  /\ NonBlank(form.title) /\ Len(form.title) <= 200
  /\ NonBlank(form.artist) /\ Len(form.artist) <= 100
  /\ "release_year" \in DOMAIN form =>
       (form.release_year >= 1900 /\ form.release_year <= current_year)

\* C9: a create or edit submitted by a signed-in user passes validation
\* exactly when the title is non-blank with at most 200 characters, the artist
\* non-blank with at most 100, and the year absent or in [1900, current year]:
\* then a create stores the album and an edit of an album of the user updates
\* it; otherwise the answer is the form again with status 422 and the stored
\* albums are unchanged.
C9_AlbumValidation ==
  [][(resp'.op \in {"create", "edit"} /\ resp'.uid # 0) =>
       IF AlbumFormValid(resp'.form)
         THEN /\ resp'.status # 422
              /\ resp'.op = "create" =>
                   (/\ resp'.view = "/albums/{id}"
                    /\ \E a \in albums' \ albums : a.id = resp'.id)
              /\ (/\ resp'.op = "edit"
                  /\ \E x \in albums : x.id = resp'.id /\ x.owner_id = resp'.uid) =>
                   resp'.view = "/albums/{id}"
         ELSE /\ resp'.status = 422
              /\ resp'.view = "album_detail.html"
              /\ albums' = albums]_vars

\* an album stored with the current year was then edited with the year after
\* it, and the edit was rejected
C9_Witness ==
  /\ resp.op = "edit"
  /\ resp.status = 422
  /\ resp.body = <<"year_range">>
  /\ resp.form.release_year = current_year + 1
  /\ \E a \in albums :
       /\ a.id = resp.id /\ a.owner_id = resp.uid
       /\ "release_year" \in DOMAIN a /\ a.release_year = current_year
       /\ Len(a.title) = 200

(***************************************************************************)
(* Search over stored albums (SpecSearch).                                 *)
(***************************************************************************)
SearchForms ==
  {[title |-> <<"a", "B">>, artist |-> <<"b">>],
   [title |-> <<"b">>, artist |-> <<"A">>, genre |-> <<"a", "_">>],
   [title |-> <<"%">>, artist |-> <<"b">>]}

Queries ==
  {<<"a">>, <<"A", "b">>, <<"b", "a">>, <<"_">>, <<"%">>, <<"a", "_">>, <<"_", "b">>}

NextSearch ==
  \/ \E token \in tokens, form \in SearchForms :
       Cardinality(albums) < MaxSearched /\ create_new_album(token, form)
  \/ \E token \in tokens, q \in Queries : albums_page(token, q)

SpecSearch == InitRegistered /\ [][NextSearch]_vars

\* sub occurs in s
Contains(s, sub) ==
  \E i \in 0..(Len(s) - Len(sub)) : SubSeq(s, i + 1, i + Len(sub)) = sub

ContainsNoCase(album, column, q) ==
  column \in DOMAIN album /\ Contains(lower(album[column]), lower(q))

\* C5: a search of user U for q returns exactly the albums of U whose title,
\* artist or genre contains q, case ignored, whatever characters q holds.
C5_SearchIsSubstring ==
  resp.op = "search" =>
    resp.body = {a \in albums :
                   /\ a.owner_id = resp.uid
                   /\ \/ ContainsNoCase(a, "title", resp.form.q)
                      \/ ContainsNoCase(a, "artist", resp.form.q)
                      \/ ContainsNoCase(a, "genre", resp.form.q)}

(***************************************************************************)
(* Every album request of two registered users: list, search, create,     *)
(* fetch, edit and delete (SpecRequests).                                  *)
(***************************************************************************)
RequestQueries == {<<"a">>}

NextRequests ==
  \/ \E token \in tokens : albums_page(token, <<>>)
  \/ \E token \in tokens, q \in RequestQueries : albums_page(token, q)
  \/ \E token \in tokens :
       Cardinality(albums) < MaxAlbums /\ create_new_album(token, FormFull)
  \/ \E token \in tokens, album_id \in AlbumIds : album_detail_page(token, album_id)
  \/ \E token \in tokens, album_id \in AlbumIds : edit_album(token, album_id, FormSubset)
  \/ \E token \in tokens, album_id \in AlbumIds : delete_album_endpoint(token, album_id)

SpecRequests == InitRegistered /\ [][NextRequests]_vars

\* response r answers a delete request that removed a row
Deleted(r) == r.op = "delete" /\ r.view = "/albums" /\ r.body = <<>>

\* a delete of an album of the requester succeeds, and a delete that succeeds
\* removes that album and no other row
DeleteRemovesOne ==
  /\ (resp'.op = "delete" /\ resp' # resp
      /\ \E x \in albums : x.id = resp'.id /\ x.owner_id = resp'.uid) => Deleted(resp')
  /\ (Deleted(resp') /\ resp' # resp) =>
       \E x \in albums :
         /\ x.id = resp'.id
         /\ x.owner_id = resp'.uid
         /\ albums' = albums \ {x}
         /\ \A y \in albums' : y.id # x.id

\* a list, a search and a fetch return stored rows of the requester only
ReadsReturnStored ==
  /\ resp'.op = "list" =>
       \A i \in 1..Len(resp'.body) :
         resp'.body[i] \in albums' /\ resp'.body[i].owner_id = resp'.uid
  /\ resp'.op = "search" =>
       \A a \in resp'.body : a \in albums' /\ a.owner_id = resp'.uid
  /\ (resp'.op = "fetch" /\ resp'.status = 200) =>
       /\ resp'.body[1] \in albums'
       /\ resp'.body[1].owner_id = resp'.uid
       /\ resp'.body[1].id = resp'.id

\* an id that is not stored comes into storage through a create alone
IdReturnsByCreate ==
  \A b \in albums' :
    (\A a \in albums : a.id # b.id) =>
      (resp'.op = "create" /\ resp'.view = "/albums/{id}" /\ resp'.id = b.id)

\* the request after a delete that succeeded is one of ops, by the same user
\* on the same id
AfterDelete(ops) ==
  /\ Deleted(resp)
  /\ resp' # resp
  /\ resp'.op \in ops
  /\ resp'.uid = resp.uid
  /\ resp'.id = resp.id
  /\ resp'.status # 422

\* such a request is answered not-found and changes no album
NotFoundAfterDelete(ops) ==
  AfterDelete(ops) => (resp'.status = 404 /\ albums' = albums)

\* C11: a delete of album X by its owner removes X and no other album; a list,
\* a search and a fetch return stored rows only, and the id of X is stored again
\* only by a create; a fetch, a valid edit or a delete of the id of X by the
\* owner after the delete is answered not-found (404).
C11_DeletionPermanent ==
  [][/\ DeleteRemovesOne
     /\ ReadsReturnStored
     /\ IdReturnsByCreate
     /\ NotFoundAfterDelete({"fetch", "edit", "delete"})]_vars

\* the parts of C11 that leave out the answer to a repeated delete
DeletionRemoves ==
  [][/\ DeleteRemovesOne
     /\ ReadsReturnStored
     /\ IdReturnsByCreate
     /\ NotFoundAfterDelete({"fetch", "edit"})]_vars

\* the owner has fetched the id of an album right after deleting it, while
\* an album of the other user is stored
DeletionWitness ==
  /\ resp.op = "fetch"
  /\ resp.status = 404
  /\ \A a \in albums : a.id # resp.id
  /\ \E a \in albums : a.owner_id # resp.uid

\* the rows of a table that user_id owns
Own(table, user_id) == {a \in table : a.owner_id = user_id}

\* what crud.update_album and crud.delete_album leave the user: not-found, or
\* the user's rows after the call
Outcome(result, user_id) ==
  IF result = Raise404 THEN Raise404 ELSE Own(result.value, user_id)

\* the keyword arguments the handlers pass for the forms of the model
RequestData == {album_data_of(form) : form \in {FormFull, FormSubset}}

\* the status the handlers may answer a request that carries token with
FetchAnswers(token, album_id, st) ==
  ENABLED (album_detail_page(token, album_id) /\ resp'.status = st)

EditAnswers(token, album_id, form, st) ==
  ENABLED (edit_album(token, album_id, form) /\ resp'.status = st)

DeleteAnswers(token, album_id, body) ==
  ENABLED (delete_album_endpoint(token, album_id) /\ resp'.body = body)

CreateAnswers(token, form, st) ==
  ENABLED (create_new_album(token, form) /\ resp'.status = st)

\* the id a create that carries token may be answered with
CreateRedirectsTo(token, form, album_id) ==
  ENABLED (create_new_album(token, form) /\ resp'.id = album_id)

\* a request that ran as user u on an album id has left a create of every other
\* user v, and a fetch, an edit and a delete of v on that id, succeeding or
\* failing as they would have before
AnswersUnaffected ==
  \A u \in users, v \in users, token \in tokens :
    (resp'.uid = u.id /\ v.id # u.id /\ token.sub = v.username) =>
      /\ CreateAnswers(token, FormSubset, 303)' = CreateAnswers(token, FormSubset, 303)
      /\ \A album_id \in AlbumIds \cap {resp'.id} :
           /\ FetchAnswers(token, album_id, 200)' = FetchAnswers(token, album_id, 200)
           /\ EditAnswers(token, album_id, FormSubset, 303)'
                = EditAnswers(token, album_id, FormSubset, 303)
           /\ DeleteAnswers(token, album_id, <<>>)' = DeleteAnswers(token, album_id, <<>>)

\* a request that ran as user u has left every read, edit and delete of every
\* other user v with the result it had before, and the rows of v as they were
OthersUnaffected ==
  \A u \in users, v \in users :
    (resp'.uid = u.id /\ v.id # u.id) =>
      /\ Own(albums, v.id)' = Own(albums, v.id)
      /\ get_albums(v.id, DefaultSkip, DefaultLimit)'
           = get_albums(v.id, DefaultSkip, DefaultLimit)
      /\ \A q \in RequestQueries : search_albums(v.id, q)' = search_albums(v.id, q)
      /\ \A album_id \in AlbumIds :
           /\ get_album_by_id(album_id, v.id)' = get_album_by_id(album_id, v.id)
           /\ Outcome(delete_album(album_id, v.id), v.id)'
                = Outcome(delete_album(album_id, v.id), v.id)
           /\ \A album_data \in RequestData :
                Outcome(update_album(album_id, v.id, album_data), v.id)'
                  = Outcome(update_album(album_id, v.id, album_data), v.id)

\* an album without its id
WithoutId(album) == [k \in DOMAIN album \ {"id"} |-> album[k]]

\* C12 as claimed: a request of one user leaves every request of another user
\* with the same result, whichever of the two runs first, the album a create
\* of the other user would store and its id included.
C12_OrderIrrelevant ==
  [][/\ OthersUnaffected
     /\ AnswersUnaffected
     /\ \A u \in users, v \in users, album_data \in RequestData :
          (resp'.uid = u.id /\ v.id # u.id) =>
            create_album(v.id, album_data)' = create_album(v.id, album_data)
     /\ \A u \in users, v \in users, token \in tokens :
          (resp'.uid = u.id /\ v.id # u.id /\ token.sub = v.username) =>
            \A album_id \in 1..(MaxAlbums + 1) :
              CreateRedirectsTo(token, FormSubset, album_id)'
                = CreateRedirectsTo(token, FormSubset, album_id)]_vars

\* C12, amended: a request of one user leaves every request of another user
\* with the same result, whichever of the two runs first, except for the id a
\* create assigns: the album a create of the other user would store is the
\* same in every column but the id.
C12_OrderIrrelevantButIds ==
  [][/\ OthersUnaffected
     /\ AnswersUnaffected
     /\ \A u \in users, v \in users, album_data \in RequestData :
          (resp'.uid = u.id /\ v.id # u.id) =>
            WithoutId(create_album(v.id, album_data))'
              = WithoutId(create_album(v.id, album_data))]_vars

\* the second user has deleted an album while the first user has one that a
\* search of the first user finds
C12_Witness ==
  /\ Deleted(resp)
  /\ resp.uid = UserB.id
  /\ \E a \in albums : a.owner_id = UserA.id /\ a \in search_albums(UserA.id, <<"a">>)

(***************************************************************************)
(* Edits of the optional fields of stored albums (SpecEdit).               *)
(***************************************************************************)
\* a form whose genre is whitespace, and one whose genre and notes are empty
FormSpaces == [title |-> <<"a">>, artist |-> <<"B">>, genre |-> <<" ">>]

FormEmpty == [title |-> <<"a">>, artist |-> <<"B">>, genre |-> <<>>, notes |-> <<>>]

EditForms == {FormSubset, FormSpaces, FormEmpty, FormFull}

NextEdit ==
  \/ \E token \in tokens, form \in {FormFull, FormSubset} :
       Cardinality(albums) < MaxAlbums /\ create_new_album(token, form)
  \/ \E token \in tokens, album_id \in AlbumIds : album_detail_page(token, album_id)
  \/ \E token \in tokens, album_id \in AlbumIds, form \in EditForms :
       edit_album(token, album_id, form)
  \/ \E token \in tokens, album_id \in AlbumIds : delete_album_endpoint(token, album_id)

SpecEdit == InitRegistered /\ [][NextEdit]_vars

OptionalColumns == AlbumColumns \ {"title", "artist"}

\* column k of the row holds a value that is neither NULL nor the empty string
HasValue(album, k) ==
  /\ k \in DOMAIN album
  /\ k # "release_year" => album[k] # <<>>

\* the form omits field k or carries it empty
OmitsOrEmpty(form, k) ==
  \/ k \notin DOMAIN form
  \/ k # "release_year" /\ form[k] = <<>>

\* an edit whose form omits an optional field or carries it empty leaves the
\* column as it was, and no edit makes a column NULL
OmittedKept ==
  \A x \in albums, y \in albums', k \in OptionalColumns :
    (x.id = y.id /\ resp'.op = "edit" /\ resp'.id = x.id /\ resp' # resp) =>
      /\ OmitsOrEmpty(resp'.form, k) => SameColumn(x, y, k)
      /\ k \in DOMAIN x => k \in DOMAIN y

\* C13: an optional column of a stored album that holds a value holds a value
\* after every request that leaves the album stored (only a delete takes it
\* away), and an edit whose form omits the field or carries it empty leaves
\* the column as it was.
C13_OptionalNeverCleared ==
  [][/\ OmittedKept
     /\ \A x \in albums, y \in albums', k \in OptionalColumns :
          (x.id = y.id /\ HasValue(x, k)) => HasValue(y, k)]_vars

\* the part of C13 on omitted and empty fields, and on NULL
OptionalNeverNull ==
  [][OmittedKept]_vars

\* an edit with an empty genre has left an album its genre
OptionalWitness ==
  /\ resp.op = "edit"
  /\ resp.view = "/albums/{id}"
  /\ resp.form = FormEmpty
  /\ \E y \in albums : y.id = resp.id /\ HasValue(y, "genre")

(***************************************************************************)
(* The whole application: registration, login, the clock and the album     *)
(* routes, one request at a time (Spec).                                   *)
(***************************************************************************)
Credentials == {[username |-> NameA, password |-> PassA],
                [username |-> NameB, password |-> PassB],
                [username |-> NameA, password |-> PassB]}

SignUps ==
  {[email |-> EmailA, username |-> NameA, password |-> PassA],
   [email |-> EmailB, username |-> NameB, password |-> PassB]}

Next ==
  \/ \E f \in SignUps :
       /\ pending = {}
       /\ register_user_check(f.email, f.username, f.password, f.password)
  \/ \E r \in pending : register_user_commit(r)
  \/ \E c \in Credentials :
       /\ pending = {}
       /\ Cardinality(tokens) < MaxTokens
       /\ login_user(c.username, c.password)
  \/ pending = {} /\ logout
  \/ \E token \in Cookies : pending = {} /\ albums_page(token, <<>>)
  \/ \E token \in Cookies : pending = {} /\ new_album_page(token)
  \/ \E token \in Cookies :
       /\ pending = {}
       /\ Cardinality(albums) < MaxStored
       /\ create_new_album(token, FormSubset)
  \/ \E token \in Cookies, album_id \in 1..MaxStored :
       pending = {} /\ album_detail_page(token, album_id)
  \/ \E token \in Cookies, album_id \in 1..MaxStored :
       pending = {} /\ edit_album(token, album_id, FormFull)
  \/ \E token \in Cookies, album_id \in 1..MaxStored :
       pending = {} /\ delete_album_endpoint(token, album_id)
  \/ Tick

Spec == Init /\ [][Next]_vars

AlbumOps == {"albums", "list", "search", "new", "create", "fetch", "edit", "delete"}

\* the token verifies, has not expired and names a stored user
ValidFor(token, u) ==
  /\ token \in tokens
  /\ now < token.exp
  /\ u \in users
  /\ u.username = token.sub

\* C10: a token is issued only by a login whose username is stored with the
\* hash of the password given, or by a registration that stored the user, and
\* it carries that username; a request to an album route with a valid token
\* runs as the user the token names, and one with no token, an invalid or an
\* expired one is redirected to /login and changes no stored state.
C10_TokenIdentity ==
  [][/\ tokens' \ tokens \subseteq {resp'.set_cookie}
     /\ resp'.set_cookie # NoToken =>
          /\ resp'.op \in {"login", "register"}
          /\ resp'.set_cookie \in tokens'
          /\ \E u \in users' :
               /\ u.username = resp'.form.username
               /\ u.hashed_password = get_password_hash(resp'.form.password)
               /\ resp'.set_cookie.sub = u.username
               /\ resp'.uid = u.id
     /\ (resp'.op \in AlbumOps /\ now' = now) =>
          IF \E u \in users : ValidFor(resp'.token, u)
            THEN /\ resp'.view # "/login"
                 /\ \E u \in users : ValidFor(resp'.token, u) /\ resp'.uid = u.id
                 /\ \A a \in albums' \ albums : a.owner_id = resp'.uid
                 /\ \A a \in albums \ albums' : a.owner_id = resp'.uid
            ELSE /\ resp'.status = 303 /\ resp'.view = "/login"
                 /\ UNCHANGED <<users, albums, tokens>>]_vars

\* a token a login issued has expired, and an edit that carried it was sent
\* to /login while the album it named stayed stored
C10_Witness ==
  /\ resp.op = "edit"
  /\ resp.view = "/login"
  /\ resp.token \in tokens
  /\ resp.token.exp <= now
  /\ \E a \in albums : a.id = resp.id
  /\ \E t \in tokens : now < t.exp

====
